---- MODULE Spec2Model ----
(***************************************************************************)
(* A model of pushfold.py, the console push/fold trainer.                  *)
(*                                                                         *)
(* Strings that the program indexes, slices or upper-cases (hand tokens,   *)
(* range strings, chart decisions, chart paths) are sequences of           *)
(* one-character strings; the empty sequence stands for both None and ""   *)
(* where the program only tests truthiness.  Tags the program only         *)
(* compares (position, action_before, coverage) are plain strings.         *)
(*                                                                         *)
(* Floats are exact rationals over fixed denominators:                     *)
(*   chips (stacks_bb, sb, bb, ante, bounties)  in 1/CHIP_DEN big blinds,  *)
(*   equity                                     in 1/EQ_DEN,               *)
(*   p_call                                     in 1/P_DEN,                *)
(*   ev_push, ev_fold                           in 1/EV_DEN big blinds.    *)
(* Binary rounding of the float operations (about 1e-15) is not modelled.  *)
(***************************************************************************)
EXTENDS Integers, Sequences, FiniteSets, TLC

VARIABLES
    pc,             \* position in the operation the specification runs
    args,           \* the parsed command line (argparse namespace)
    fs,             \* logical records of the chart file args.chart names
    chart,          \* advisor_mode: the loaded chart
    rng,            \* the process-wide generator of module random
    hand,           \* advisor_mode: hand
    spot,           \* advisor_mode: spot
    decision_chart, \* advisor_mode: decision_chart
    ev,             \* advisor_mode: eval_spot_ev's outcome
    decision_ev,    \* advisor_mode: decision_ev
    final,          \* advisor_mode: final
    exc,            \* the uncaught exception that ended the run, or NoExc
    log,            \* SpecEv: the eval_spot_ev calls made so far
    range_str,      \* SpecParse: the argument of parse_hand_range
    hands,          \* SpecParse: outcome of parse_hand_range
    chart_csv,      \* SpecLoad: chart loaded through the .csv branch
    chart_json      \* SpecLoad: chart loaded through the .json branch

vars == <<pc, args, fs, chart, rng, hand, spot, decision_chart, ev,
          decision_ev, final, exc, log, range_str, hands, chart_csv,
          chart_json>>


-----------------------------------------------------------------------------
(* Python string helpers *)

None == <<>>

Min(a, b) == IF a <= b THEN a ELSE b
Abs(x) == IF x >= 0 THEN x ELSE 0 - x

\* s.endswith(suffix)
EndsWith(s, suffix) ==
    /\ Len(s) >= Len(suffix)
    /\ SubSeq(s, Len(s) - Len(suffix) + 1, Len(s)) = suffix

\* c in s
Contains(s, c) == \E i \in 1..Len(s) : s[i] = c

\* s.index(c): the 0-based position of the first c; -1 stands for ValueError
IndexOf(s, c) ==
    IF Contains(s, c)
    THEN (CHOOSE i \in 1..Len(s) : s[i] = c /\ \A j \in 1..(i - 1) : s[j] # c) - 1
    ELSE 0 - 1

\* s.replace(c, "")
RECURSIVE Remove(_, _)
Remove(s, c) ==
    IF s = <<>> THEN <<>>
    ELSE IF Head(s) = c THEN Remove(Tail(s), c)
    ELSE <<Head(s)>> \o Remove(Tail(s), c)

\* s.split(c): always at least one piece, empty pieces kept
RECURSIVE Split(_, _)
Split(s, c) ==
    IF ~Contains(s, c) THEN <<s>>
    ELSE LET i == IndexOf(s, c) + 1
         IN  <<SubSeq(s, 1, i - 1)>> \o Split(SubSeq(s, i + 1, Len(s)), c)

LowerCase == <<"a","b","c","d","e","f","g","h","i","j","k","l","m",
               "n","o","p","q","r","s","t","u","v","w","x","y","z">>
UpperCase == <<"A","B","C","D","E","F","G","H","I","J","K","L","M",
               "N","O","P","Q","R","S","T","U","V","W","X","Y","Z">>

\* s.upper()
Upper(s) ==
    [i \in 1..Len(s) |->
        IF Contains(LowerCase, s[i]) THEN UpperCase[IndexOf(LowerCase, s[i]) + 1]
        ELSE s[i]]

-----------------------------------------------------------------------------
(* parse_hand_range *)

\* ranks = "AKQJT98765432" (parse_hand_range, random_hand)
RanksDesc == <<"A","K","Q","J","T","9","8","7","6","5","4","3","2">>

\* ranks[idx::-1]: the characters at positions idx, idx-1, ..., 0
SliceDown(idx) == [k \in 1..(idx + 1) |-> RanksDesc[idx + 2 - k]]

\* One iteration of the loop over tokens: the hands the token appends, or
\* the ValueError of ranks.index.
ParseToken(token) ==
    IF token = <<>> THEN [raised |-> FALSE, out |-> {}]
    ELSE IF Contains(token, "+") /\ Len(token) = 3 THEN
        LET base == SubSeq(token, 1, 2)
            s    == token[3]
            idx  == IndexOf(RanksDesc, base[2])
        IN  IF idx < 0 THEN [raised |-> TRUE, out |-> {}]
            ELSE [raised |-> FALSE,
                  out |-> { <<base[1], SliceDown(idx)[k], s>> : k \in 1..(idx + 1) }]
    ELSE IF Contains(token, "+") /\ Len(token) = 2 THEN
        LET idx == IndexOf(RanksDesc, token[1])
        IN  IF idx < 0 THEN [raised |-> TRUE, out |-> {}]
            ELSE [raised |-> FALSE,
                  out |-> { <<SliceDown(idx)[k], SliceDown(idx)[k]>> : k \in 1..(idx + 1) }]
    ELSE [raised |-> FALSE, out |-> {token}]

\* parse_hand_range(range_str): list(set(hands)) as a set, or ValueError
parse_hand_range(str) ==
    LET tokens  == Split(Remove(str, " "), ",")
        results == [i \in 1..Len(tokens) |-> ParseToken(tokens[i])]
    IN  IF \E i \in 1..Len(tokens) : results[i].raised
        THEN [raised |-> TRUE, out |-> {}]
        ELSE [raised |-> FALSE,
              out |-> UNION { results[i].out : i \in 1..Len(tokens) }]

-----------------------------------------------------------------------------
(* Number representation *)

\* chips are counted in 1/CHIP_DEN big blinds (0.125 = 1/8 is the default ante)
CHIP_DEN == 8
\* equities are counted in 1/EQ_DEN: 0.05/12 = 1/240, 0.4/12 = 8/240, 0.35/12 = 7/240
EQ_DEN == 240
\* call probabilities are counted in 1/P_DEN: 0.05 = 1/20
P_DEN == 20
\* expected values are counted in 1/EV_DEN big blinds
EV_DEN == P_DEN * EQ_DEN * CHIP_DEN

-----------------------------------------------------------------------------
(* random_hand and the process-wide generator *)

\* The generator's state is what seeded it and how many draws it has served
\* since; the interpreter seeds it from the operating system at start-up.
\* Origin -1 is the operating system's entropy.
OsSeeded == [origin |-> 0 - 1, draws |-> 0]

\* random.seed(seed): an int seeds by its absolute value
random_seed(seed) == [origin |-> Abs(seed), draws |-> 0]

\* the state after one call of random.sample / random.choice
Drawn(g) == [origin |-> g.origin, draws |-> g.draws + 1]

\* random.sample(ranks, 2): two characters at distinct positions, in any order
random_sample2 ==
    { <<RanksDesc[i], RanksDesc[j]>> : i, j \in 1..Len(RanksDesc) } \
    { <<RanksDesc[i], RanksDesc[i]>> : i \in 1..Len(RanksDesc) }

\* random_hand(): the values one call can return.  Which of them a given
\* generator state yields is not modelled; every one is possible.
random_hand ==
    UNION { IF ab[1] = ab[2] THEN { <<ab[1], ab[2]>> }
            ELSE { <<ab[1], ab[2], s>> : s \in {"s", "o"} } : ab \in random_sample2 }

\* the generator after random_hand: one sample, and one choice unless a == b
AfterRandomHand(g, h) == IF Len(h) = 2 THEN Drawn(g) ELSE Drawn(Drawn(g))

-----------------------------------------------------------------------------
(* load_chart *)

PUSH == <<"P","U","S","H">>
FOLD == <<"F","O","L","D">>
NA   == <<"N","/","A">>

A2s == <<"A","2","s">>
A9o == <<"A","9","o">>
A8o == <<"A","8","o">>
KTo == <<"K","T","o">>
K9s == <<"K","9","s">>
K9o == <<"K","9","o">>

EmptyChart == [k \in {} |-> [h \in {} |-> NA]]

\* chart.setdefault(key, {})[hand] = decision
SetEntry(c, key, h, decision) ==
    LET inner == IF key \in DOMAIN c THEN c[key] ELSE [x \in {} |-> NA]
        put   == [x \in (DOMAIN inner) \cup {h} |-> IF x = h THEN decision ELSE inner[x]]
    IN  [k \in (DOMAIN c) \cup {key} |-> IF k = key THEN put ELSE c[k]]

\* the built-in chart returned when no path is given
DefaultChart ==
    LET sb  == <<10, "SB", "none">>
        btn == <<10, "BTN", "none">>
    IN  SetEntry(SetEntry(SetEntry(
        SetEntry(SetEntry(SetEntry(SetEntry(EmptyChart,
            sb, A2s, PUSH), sb, A9o, PUSH), sb, KTo, FOLD),
            btn, A2s, PUSH), btn, A8o, PUSH), btn, K9s, PUSH), btn, K9o, FOLD)

Digits == <<"0","1","2","3","4","5","6","7","8","9">>

\* the decimal text of a non-negative integer, as a chart author writes the
\* stack_bb column of a .csv file
RECURSIVE FormatInt(_)
FormatInt(n) ==
    IF n < 10 THEN <<Digits[n + 1]>>
    ELSE FormatInt(n \div 10) \o <<Digits[(n % 10) + 1]>>

\* int(text) for a cell of digits; -1 stands for ValueError
RECURSIVE ParseInt(_)
ParseInt(text) ==
    IF text = <<>> \/ \E i \in 1..Len(text) : ~Contains(Digits, text[i]) THEN 0 - 1
    ELSE IF Len(text) = 1 THEN IndexOf(Digits, text[1])
    ELSE 10 * ParseInt(SubSeq(text, 1, Len(text) - 1)) + IndexOf(Digits, text[Len(text)])

\* The rows csv.DictReader yields for a file holding the logical records:
\* every cell is text.
CsvRows(records) ==
    [i \in 1..Len(records) |->
        [stack_bb |-> FormatInt(records[i].stack_bb),
         position |-> records[i].position,
         action_before |-> records[i].action_before,
         hand |-> records[i].hand,
         decision |-> records[i].decision]]

\* The list json.load yields for a file holding the logical records:
\* stack_bb is a number.
JsonData(records) == records

\* the loop of the .csv branch, over the first n rows
RECURSIVE CsvLoop(_, _)
CsvLoop(rows, n) ==
    IF n = 0 THEN EmptyChart
    ELSE LET row == rows[n]
             key == <<ParseInt(row.stack_bb), row.position, row.action_before>>
         IN  SetEntry(CsvLoop(rows, n - 1), key, row.hand, Upper(row.decision))

\* the loop of the .json branch, over the first n records
RECURSIVE JsonLoop(_, _)
JsonLoop(data, n) ==
    IF n = 0 THEN EmptyChart
    ELSE LET row == data[n]
             key == <<row.stack_bb, row.position, row.action_before>>
         IN  SetEntry(JsonLoop(data, n - 1), key, row.hand, Upper(row.decision))

\* the .csv branch storing row["decision"] without .upper()
load_chart_csv_as_written(rows) ==
    LET loop[n \in 0..Len(rows)] ==
            IF n = 0 THEN EmptyChart
            ELSE LET row == rows[n]
                     key == <<ParseInt(row.stack_bb), row.position, row.action_before>>
                 IN  SetEntry(loop[n - 1], key, row.hand, row.decision)
    IN  IF \E i \in 1..Len(rows) : ParseInt(rows[i].stack_bb) < 0
        THEN [raised |-> TRUE, chart |-> EmptyChart]
        ELSE [raised |-> FALSE, chart |-> loop[Len(rows)]]

\* load_chart, path.endswith(".csv")
load_chart_csv(rows) ==
    IF \E i \in 1..Len(rows) : ParseInt(rows[i].stack_bb) < 0
    THEN [raised |-> TRUE, chart |-> EmptyChart]
    ELSE [raised |-> FALSE, chart |-> CsvLoop(rows, Len(rows))]

\* load_chart, path.endswith(".json")
load_chart_json(data) == [raised |-> FALSE, chart |-> JsonLoop(data, Len(data))]

DotCsv  == <<".","c","s","v">>
DotJson == <<".","j","s","o","n">>

\* load_chart(path), where records is what the file at path holds
load_chart(path, records) ==
    IF path = None THEN [raised |-> FALSE, chart |-> DefaultChart]
    ELSE IF EndsWith(path, DotCsv) THEN load_chart_csv(CsvRows(records))
    ELSE IF EndsWith(path, DotJson) THEN load_chart_json(JsonData(records))
    ELSE [raised |-> TRUE, chart |-> EmptyChart]

-----------------------------------------------------------------------------
(* eval_spot_chart *)

\* int(round(x)) for x = n/CHIP_DEN: round() takes a tie to the even neighbour
Round(n) ==
    LET q == n \div CHIP_DEN
        r == n % CHIP_DEN
    IN  IF 2 * r < CHIP_DEN THEN q
        ELSE IF 2 * r > CHIP_DEN THEN q + 1
        ELSE IF q % 2 = 0 THEN q ELSE q + 1

\* eval_spot_chart with int(spot.stacks_bb) for int(round(spot.stacks_bb))
eval_spot_chart_truncating(h, sp, c) ==
    LET key == <<sp.stacks_bb \div CHIP_DEN, sp.position, sp.action_before>>
    IN  IF key \notin DOMAIN c THEN NA
        ELSE IF h \in DOMAIN c[key] THEN c[key][h] ELSE NA

eval_spot_chart(h, sp, c) ==
    LET key == <<Round(sp.stacks_bb), sp.position, sp.action_before>>
    IN  IF key \notin DOMAIN c THEN NA
        ELSE IF h \in DOMAIN c[key] THEN c[key][h] ELSE NA

-----------------------------------------------------------------------------
(* hand_strength_estimate, eval_spot_ev *)

\* ranks = "23456789TJQKA" (hand_strength_estimate)
RanksAsc == <<"2","3","4","5","6","7","8","9","T","J","Q","K","A">>

\* hand_strength_estimate(hand) in 1/EQ_DEN, or the exception of hand[0] /
\* ranks.index
hand_strength_estimate(h) ==
    IF h = <<>> THEN [raised |-> "IndexError", val |-> 0]
    ELSE LET idx == IndexOf(RanksAsc, h[1])
         IN  IF idx < 0 THEN [raised |-> "ValueError", val |-> 0]
             ELSE IF Len(h) = 2 /\ h[1] = h[2]
                 THEN [raised |-> "no", val |-> (85 * EQ_DEN) \div 100 + idx]
             ELSE IF EndsWith(h, <<"s">>)
                 THEN [raised |-> "no", val |-> (5 * EQ_DEN) \div 10 + 8 * idx]
             ELSE IF EndsWith(h, <<"o">>)
                 THEN [raised |-> "no", val |-> (4 * EQ_DEN) \div 10 + 7 * idx]
             ELSE [raised |-> "no", val |-> (5 * EQ_DEN) \div 10]

\* p_call counting from a 10-handed table
p_call_ten_handed(sp) == Min(P_DEN \div 4 + (10 - sp.players_left), P_DEN \div 2)

\* p_call = min(0.25 + 0.05 * (9 - players_left), 0.5) in 1/P_DEN
p_call(sp) == Min(P_DEN \div 4 + (9 - sp.players_left), P_DEN \div 2)

\* pot_pre in 1/CHIP_DEN big blinds
pot_pre(sp) ==
    sp.sb + sp.bb + (IF sp.bb_ante THEN sp.bb ELSE sp.ante * sp.players_left)

\* SeedStep testing "seed is not None" for "seed"
SeedStepIfGiven(seed, g) ==
    IF seed.given THEN random_seed(seed.val) ELSE g

\* if seed: random.seed(seed)
SeedStep(seed, g) ==
    IF seed.given /\ seed.val # 0 THEN random_seed(seed.val) ELSE g

\* ev_push in 1/EV_DEN big blinds, for equity e in 1/EQ_DEN
ev_push_of(e, sp) ==
    (P_DEN - p_call(sp)) * pot_pre(sp) * EQ_DEN
    + p_call(sp) * (e * (pot_pre(sp) + sp.stacks_bb) - (EQ_DEN - e) * sp.stacks_bb)
    + (IF sp.pko /\ sp.coverage = "self"
       THEN (e * sp.bounty_op * P_DEN) \div 10 ELSE 0)

\* eval_spot_ev as a simulation whose sampling error depends on the seed and
\* the number of iterations
eval_spot_ev_simulated(h, sp, iterations, seed, g) ==
    LET equity == hand_strength_estimate(h)
        noise  == (IF seed.given THEN seed.val ELSE 1) + (iterations % 3)
    IN  IF equity.raised # "no"
        THEN [raised |-> equity.raised, ev_push |-> 0, ev_fold |-> 0,
              rng |-> SeedStep(seed, g)]
        ELSE [raised |-> "no", ev_push |-> ev_push_of(equity.val, sp) + noise,
              ev_fold |-> 0, rng |-> SeedStep(seed, g)]

\* eval_spot_ev(hand, spot, iterations, seed) run with the generator in state
\* g: the returned pair or the exception, and the generator afterwards
eval_spot_ev(h, sp, iterations, seed, g) ==
    LET equity == hand_strength_estimate(h)
    IN  IF equity.raised # "no"
        THEN [raised |-> equity.raised, ev_push |-> 0, ev_fold |-> 0,
              rng |-> SeedStep(seed, g)]
        ELSE [raised |-> "no", ev_push |-> ev_push_of(equity.val, sp), ev_fold |-> 0,
              rng |-> SeedStep(seed, g)]

-----------------------------------------------------------------------------
(* advisor_mode: the blend *)

\* 0.15 big blinds in 1/EV_DEN
Threshold == (15 * EV_DEN) \div 100

\* decision_ev = "PUSH" if ev_push > ev_fold else "FOLD"
DecisionEv(ev_push, ev_fold) == IF ev_push > ev_fold THEN PUSH ELSE FOLD

\* Blend with the override by a large EV margin left out
BlendChartWins(dchart, ev_push, ev_fold) ==
    IF dchart = NA THEN DecisionEv(ev_push, ev_fold) ELSE dchart

\* final = decision_chart, unless N/A or abs(ev_push - ev_fold) > 0.15
Blend(dchart, ev_push, ev_fold) ==
    IF dchart = NA \/ Abs(ev_push - ev_fold) > Threshold
    THEN DecisionEv(ev_push, ev_fold)
    ELSE dchart

-----------------------------------------------------------------------------
(* Inputs *)

H77  == <<"7","7">>
H32o == <<"3","2","o">>
HAK  == <<"A","K">>
HX9  == <<"X","9">>

\* --hand: absent, canonical hands, a suffix-less non-pair, a token whose
\* first character is no rank
HandArgs == {None, A2s, KTo, H77, H32o, HAK, HX9}

\* --stacks-bb in 1/CHIP_DEN: 9.625, 10, 10.5, 25
StackArgs == {77, 80, 84, 200}

PositionArgs == {"SB", "CO"}
PlayersLeftArgs == {4, 8}

\* --pko, --coverage, --bounty-op (in 1/CHIP_DEN)
BountyArgs ==
    { [pko |-> FALSE, coverage |-> "none", bounty_op |-> 0],
      [pko |-> TRUE, coverage |-> "self", bounty_op |-> 80] }

ChartCsv  == <<"c">> \o DotCsv
ChartJson == <<"c">> \o DotJson
ChartTxt  == <<"c",".","t","x","t">>
ChartArgs == {None, ChartCsv, ChartJson, ChartTxt}

NoSeed == [given |-> FALSE, val |-> 0]
SeedOf(n) == [given |-> TRUE, val |-> n]

\* --iterations and --rng-seed
SimArgs == { [iterations |-> 10000, rng_seed |-> NoSeed],
             [iterations |-> 1, rng_seed |-> SeedOf(7)] }

Args ==
    { [hand |-> h, stacks_bb |-> st, position |-> p, players_left |-> n,
       action_before |-> "none", sb |-> CHIP_DEN \div 2, bb |-> CHIP_DEN,
       ante |-> CHIP_DEN \div 8, bb_ante |-> ba, pko |-> b.pko,
       bounty_self |-> 0, bounty_op |-> b.bounty_op, coverage |-> b.coverage,
       chart |-> c, iterations |-> sim.iterations, rng_seed |-> sim.rng_seed] :
      h \in HandArgs, st \in StackArgs, p \in PositionArgs,
      n \in PlayersLeftArgs, ba \in BOOLEAN, b \in BountyArgs,
      c \in ChartArgs, sim \in SimArgs }

Row(st, p, a, h, d) ==
    [stack_bb |-> st, position |-> p, action_before |-> a, hand |-> h, decision |-> d]

\* the records of the chart file the .csv and .json paths name
ChartFile ==
    << Row(25, "SB", "none", H32o, <<"f","o","l","d">>),
       Row(10, "SB", "none", A2s, <<"f","o","l","d">>),
       Row(10, "SB", "none", A2s, <<"P","u","s","h">>),
       Row(10, "SB", "none", H77, <<"c","a","l","l">>),
       Row(25, "SB", "none", HX9, PUSH) >>

-----------------------------------------------------------------------------
(* advisor_mode *)

NoExc == [in |-> "", type |-> ""]

\* Spot(stacks_bb=args.stacks_bb, ...)
SpotOf(a) ==
    [stacks_bb |-> a.stacks_bb, position |-> a.position,
     players_left |-> a.players_left, action_before |-> a.action_before,
     sb |-> a.sb, bb |-> a.bb, ante |-> a.ante, bb_ante |-> a.bb_ante,
     pko |-> a.pko, bounty_self |-> a.bounty_self, bounty_op |-> a.bounty_op,
     coverage |-> a.coverage]

Init ==
    /\ pc = "load_chart"
    /\ args \in Args
    /\ fs = ChartFile
    /\ chart = EmptyChart
    /\ rng = OsSeeded
    /\ hand = None
    /\ spot = None
    /\ decision_chart = None
    /\ ev = None
    /\ decision_ev = None
    /\ final = None
    /\ exc = NoExc
    /\ log = <<>>
    /\ range_str = <<>>
    /\ hands = None
    /\ chart_csv = None
    /\ chart_json = None

\* chart = load_chart(args.chart)
LoadChart ==
    /\ pc = "load_chart"
    /\ LET r == load_chart(args.chart, fs)
       IN  IF r.raised
           THEN /\ pc' = "raised"
                /\ exc' = [in |-> "load_chart", type |-> "ValueError"]
                /\ chart' = chart
           ELSE /\ pc' = "pick_hand"
                /\ exc' = exc
                /\ chart' = r.chart
    /\ UNCHANGED <<args, fs, rng, hand, spot, decision_chart, ev, decision_ev,
                   final, log, range_str, hands, chart_csv, chart_json>>

\* hand = args.hand or random_hand(); spot = Spot(...)
PickHand ==
    /\ pc = "pick_hand"
    /\ IF args.hand # None
       THEN hand' = args.hand /\ rng' = rng
       ELSE \E h \in random_hand : hand' = h /\ rng' = AfterRandomHand(rng, h)
    /\ spot' = SpotOf(args)
    /\ pc' = "eval_spot_chart"
    /\ UNCHANGED <<args, fs, chart, decision_chart, ev, decision_ev, final, exc,
                   log, range_str, hands, chart_csv, chart_json>>

\* decision_chart = eval_spot_chart(hand, spot, chart)
EvalSpotChart ==
    /\ pc = "eval_spot_chart"
    /\ decision_chart' = eval_spot_chart(hand, spot, chart)
    /\ pc' = "eval_spot_ev"
    /\ UNCHANGED <<args, fs, chart, rng, hand, spot, ev, decision_ev, final, exc,
                   log, range_str, hands, chart_csv, chart_json>>

\* ev_push, ev_fold = eval_spot_ev(hand, spot, args.iterations, args.rng_seed)
EvalSpotEv ==
    /\ pc = "eval_spot_ev"
    /\ LET r == eval_spot_ev(hand, spot, args.iterations, args.rng_seed, rng)
       IN  /\ rng' = r.rng
           /\ IF r.raised # "no"
              THEN /\ pc' = "raised"
                   /\ exc' = [in |-> "hand_strength_estimate", type |-> r.raised]
                   /\ ev' = ev
              ELSE /\ pc' = "blend"
                   /\ exc' = exc
                   /\ ev' = [ev_push |-> r.ev_push, ev_fold |-> r.ev_fold]
    /\ UNCHANGED <<args, fs, chart, hand, spot, decision_chart, decision_ev,
                   final, log, range_str, hands, chart_csv, chart_json>>

\* decision_ev, delta, final; the printed report changes no state
BlendStep ==
    /\ pc = "blend"
    /\ decision_ev' = DecisionEv(ev.ev_push, ev.ev_fold)
    /\ final' = Blend(decision_chart, ev.ev_push, ev.ev_fold)
    /\ pc' = "done"
    /\ UNCHANGED <<args, fs, chart, rng, hand, spot, decision_chart, ev, exc,
                   log, range_str, hands, chart_csv, chart_json>>

Next == LoadChart \/ PickHand \/ EvalSpotChart \/ EvalSpotEv \/ BlendStep

Spec == Init /\ [][Next]_vars

-----------------------------------------------------------------------------
(* Properties of advisor_mode *)

Delta == ev.ev_push - ev.ev_fold

\* C1: when advisor_mode has blended, decision_ev is PUSH exactly when
\* ev_push > ev_fold; final is the chart's decision whenever the chart has one
\* and |ev_push - ev_fold| <= 0.15, whatever decision_ev is; and final is
\* decision_ev whenever the chart has none or |ev_push - ev_fold| > 0.15.
C1_BlendingRule ==
    pc = "done" =>
        /\ decision_ev = (IF ev.ev_push > ev.ev_fold THEN PUSH ELSE FOLD)
        /\ (decision_chart # NA /\ 100 * Abs(Delta) <= 15 * EV_DEN
                => final = decision_chart)
        /\ (decision_chart = NA \/ 100 * Abs(Delta) > 15 * EV_DEN
                => final = decision_ev)

\* a blend in which the chart and the EV disagree and the margin is large, so
\* the EV decision overrides the chart
C1_Witness ==
    /\ pc = "done"
    /\ decision_chart = FOLD
    /\ decision_ev = PUSH
    /\ 100 * Abs(Delta) > 15 * EV_DEN
    /\ final = PUSH

\* a blend in which the chart and the EV disagree within the margin, so the
\* chart stands
C1_WitnessWithinMargin ==
    /\ pc = "done"
    /\ decision_chart = FOLD
    /\ decision_ev = PUSH
    /\ 100 * Abs(Delta) <= 15 * EV_DEN
    /\ final = FOLD

\* the integers nearest to n/CHIP_DEN (both neighbours on a tie)
NearestInts(n) ==
    LET cand == { n \div CHIP_DEN, n \div CHIP_DEN + 1 }
    IN  { k \in cand : \A j \in cand : Abs(CHIP_DEN * k - n) <= Abs(CHIP_DEN * j - n) }

\* the decision chart c stores for hand h under key, N/A when there is none
Stored(c, key, h) ==
    IF key \in DOMAIN c /\ h \in DOMAIN c[key] THEN c[key][h] ELSE NA

\* C4: the eval_spot_chart step never raises (the run goes on to eval_spot_ev),
\* leaves the chart unchanged, and yields the decision stored for the hand under
\* (stack rounded to a nearest integer, position, action_before), N/A when the
\* key or the hand is absent.
C4_LookupNeverRaises ==
    [][pc = "eval_spot_chart" =>
        /\ pc' = "eval_spot_ev"
        /\ exc' = NoExc
        /\ chart' = chart
        /\ \E k \in NearestInts(spot.stacks_bb) :
              decision_chart' =
                  Stored(chart, <<k, spot.position, spot.action_before>>, hand)]_vars

\* a lookup that had to round the stack (9.625 -> 10) and found the hand
C4_Witness ==
    /\ pc = "eval_spot_ev"
    /\ spot.stacks_bb % CHIP_DEN # 0
    /\ decision_chart = PUSH

\* a lookup whose key is in the chart while the hand is not
C4_WitnessHandAbsent ==
    /\ pc = "eval_spot_ev"
    /\ <<Round(spot.stacks_bb), spot.position, spot.action_before>> \in DOMAIN chart
    /\ decision_chart = NA

IsPair(h) == Len(h) = 2 /\ h[1] = h[2]

\* C5: the decision path never ends in an error raised for the hand token:
\* a token that is neither a pocket pair nor ends in s or o gets equity 0.5,
\* and a finished blend has a final decision of PUSH or FOLD.
C5_NoErrorForAnyHand ==
    /\ pc = "raised" => exc.in = "load_chart"
    /\ (pc \in {"blend", "done", "raised"} /\ hand # None /\ ~IsPair(hand)
            /\ ~EndsWith(hand, <<"s">>) /\ ~EndsWith(hand, <<"o">>))
        => hand_strength_estimate(hand) = [raised |-> "no", val |-> EQ_DEN \div 2]
    /\ pc = "done" => final \in {PUSH, FOLD}

\* the concrete scenario: 10bb, SB, no action before, 8 players, sb 0.5, bb 1,
\* ante 0.125, big-blind ante, no PKO, hand A2s, the built-in chart
C8_Scenario ==
    /\ hand = A2s
    /\ args.chart = None
    /\ spot.stacks_bb = 10 * CHIP_DEN
    /\ spot.position = "SB"
    /\ spot.action_before = "none"
    /\ spot.players_left = 8
    /\ 2 * spot.sb = CHIP_DEN
    /\ spot.bb = CHIP_DEN
    /\ 8 * spot.ante = CHIP_DEN
    /\ spot.bb_ante
    /\ ~spot.pko

\* C8: for 10bb, SB, no action before, 8 players, sb 0.5, bb 1, ante 0.125,
\* big-blind ante, no PKO, hand A2s and the built-in chart: the chart says
\* PUSH, equity is 0.9, p_call 0.30, pot_pre 2.5, ev_push 4.825, ev_fold 0
\* and the final decision is PUSH.
C8_ConcreteScenario ==
    (pc = "done" /\ C8_Scenario) =>
        /\ decision_chart = PUSH
        /\ 10 * hand_strength_estimate(hand).val = 9 * EQ_DEN
        /\ 100 * p_call(spot) = 30 * P_DEN
        /\ 10 * pot_pre(spot) = 25 * CHIP_DEN
        /\ 1000 * ev.ev_push = 4825 * EV_DEN
        /\ ev.ev_fold = 0
        /\ final = PUSH

\* the scenario's run has finished
C8_Witness == pc = "done" /\ C8_Scenario

IsRank(c) == Contains(RanksDesc, c)

\* a canonical hand token: two ranks, highest first; s or o after two
\* different ranks, nothing after a pair
IsCanonical(h) ==
    /\ Len(h) \in {2, 3}
    /\ IsRank(h[1]) /\ IsRank(h[2])
    /\ Len(h) = 2 => h[1] = h[2]
    /\ Len(h) = 3 => /\ IndexOf(RanksDesc, h[1]) < IndexOf(RanksDesc, h[2])
                     /\ h[3] \in {"s", "o"}

\* the 169 canonical hands
CanonicalHands ==
    LET suitedOrOff ==
            { <<RanksDesc[i], RanksDesc[j], t>> :
                i \in 1..13, j \in 1..13, t \in {"s", "o"} }
    IN  { <<RanksDesc[i], RanksDesc[i]>> : i \in 1..13 } \cup
        { h \in suitedOrOff : IndexOf(RanksDesc, h[1]) < IndexOf(RanksDesc, h[2]) }

\* C10: every hand random_hand hands to advisor_mode is a canonical hand
\* token, and each of the 169 canonical hands is a value random_hand can
\* return.
C10_RandomHandOf169 ==
    (args.hand = None /\ hand # None) =>
        /\ IsCanonical(hand)
        /\ Cardinality(CanonicalHands) = 169
        /\ CanonicalHands \subseteq random_hand

-----------------------------------------------------------------------------
(* SpecEv: eval_spot_ev called repeatedly for one hand and spot, with       *)
(* random_hand calls in between                                             *)

MaxCalls == 2
MaxDraws == 2

EvHands == HandArgs \ {None}
EvSpots == { SpotOf(a) : a \in { b \in Args : b.position = "SB" /\ b.stacks_bb \in {80, 200} } }
EvIterations == {1, 10000}
EvSeeds == {NoSeed, SeedOf(0), SeedOf(7)}

InitEv ==
    /\ pc = "idle"
    /\ args = None
    /\ fs = <<>>
    /\ chart = EmptyChart
    /\ rng = OsSeeded
    /\ hand \in EvHands
    /\ spot \in EvSpots
    /\ decision_chart = None
    /\ ev = None
    /\ decision_ev = None
    /\ final = None
    /\ exc = NoExc
    /\ log = <<>>
    /\ range_str = <<>>
    /\ hands = None
    /\ chart_csv = None
    /\ chart_json = None

\* one call eval_spot_ev(hand, spot, iterations, seed), as sim_mode and
\* advisor_mode make it; an exception is caught by the caller
Query ==
    /\ Len(log) < MaxCalls
    /\ \E iterations \in EvIterations, seed \in EvSeeds :
        LET r == eval_spot_ev(hand, spot, iterations, seed, rng)
            result == [raised |-> r.raised, ev_push |-> r.ev_push, ev_fold |-> r.ev_fold]
        IN  /\ rng' = r.rng
            /\ ev' = result
            /\ log' = Append(log, [iterations |-> iterations, seed |-> seed,
                                   before |-> rng, after |-> r.rng, result |-> result])
    /\ UNCHANGED <<pc, args, fs, chart, hand, spot, decision_chart, decision_ev,
                   final, exc, range_str, hands, chart_csv, chart_json>>

\* one call random_hand() for another purpose (its value is not the queries'
\* hand)
DrawHand ==
    /\ rng.draws < MaxDraws
    /\ rng' \in { AfterRandomHand(rng, h) : h \in random_hand }
    /\ UNCHANGED <<pc, args, fs, chart, hand, spot, decision_chart, ev,
                   decision_ev, final, exc, log, range_str, hands, chart_csv,
                   chart_json>>

NextEv == Query \/ DrawHand

SpecEv == InitEv /\ [][NextEv]_vars

\* C6: any two eval_spot_ev calls with the same hand and spot have the same
\* outcome (ev_push, ev_fold), whatever their iterations and seed arguments.
C6_Deterministic ==
    \A i, j \in 1..Len(log) : log[i].result = log[j].result

\* two calls that returned, with different iterations and different seeds, one
\* of them without a seed
C6_Witness ==
    /\ Len(log) = 2
    /\ log[1].seed = NoSeed
    /\ log[2].seed = SeedOf(7)
    /\ log[1].iterations # log[2].iterations
    /\ log[2].result.raised = "no"

-----------------------------------------------------------------------------
(* SpecLoad: one logical list of records loaded through both branches *)

MaxRows == 2

LoadStacks == {9, 10, 25}
LoadPositions == {"SB", "BTN"}
LoadHands == {A2s, KTo}
LoadDecisions == { <<"p","u","s","h">>, FOLD, <<"F","o","l","d">> }

LoadRows ==
    { Row(st, p, "none", h, d) :
        st \in LoadStacks, p \in LoadPositions, h \in LoadHands, d \in LoadDecisions }

RecordLists == UNION { [1..n -> LoadRows] : n \in 0..MaxRows }

NotLoaded == [loaded |-> FALSE, raised |-> FALSE, chart |-> EmptyChart]
Loaded(r) == [loaded |-> TRUE, raised |-> r.raised, chart |-> r.chart]

InitLoad ==
    /\ pc = "load"
    /\ args = None
    /\ fs \in RecordLists
    /\ chart = EmptyChart
    /\ rng = OsSeeded
    /\ hand = None
    /\ spot = None
    /\ decision_chart = None
    /\ ev = None
    /\ decision_ev = None
    /\ final = None
    /\ exc = NoExc
    /\ log = <<>>
    /\ range_str = <<>>
    /\ hands = None
    /\ chart_csv = NotLoaded
    /\ chart_json = NotLoaded

\* load_chart("c.csv") on the file that holds the records as text
LoadCsv ==
    /\ ~chart_csv.loaded
    /\ chart_csv' = Loaded(load_chart(ChartCsv, fs))
    /\ UNCHANGED <<pc, args, fs, chart, rng, hand, spot, decision_chart, ev,
                   decision_ev, final, exc, log, range_str, hands, chart_json>>

\* load_chart("c.json") on the file that holds the records as JSON
LoadJson ==
    /\ ~chart_json.loaded
    /\ chart_json' = Loaded(load_chart(ChartJson, fs))
    /\ UNCHANGED <<pc, args, fs, chart, rng, hand, spot, decision_chart, ev,
                   decision_ev, final, exc, log, range_str, hands, chart_csv>>

NextLoad == LoadCsv \/ LoadJson

SpecLoad == InitLoad /\ [][NextLoad]_vars

\* the spots and hands the loaded charts are queried with
LookupSpots ==
    { [SpotOf(a) EXCEPT !.position = p, !.stacks_bb = st] :
        a \in { b \in Args : b.players_left = 8 /\ b.bb_ante /\ ~b.pko
                                /\ b.position = "SB" /\ b.stacks_bb = 80 },
        p \in {"SB", "BTN", "CO"},
        st \in {9 * CHIP_DEN, 77, 10 * CHIP_DEN, 84, 25 * CHIP_DEN} }
LookupHands == LoadHands \cup {H77}

\* the records of rs for hand h under (st, p, a)
Matching(rs, st, p, a, h) ==
    { i \in 1..Len(rs) :
        /\ rs[i].stack_bb = st /\ rs[i].position = p
        /\ rs[i].action_before = a /\ rs[i].hand = h }

\* the upper-cased decision of the last record for the hand under the key,
\* N/A when there is none
LastDecision(rs, st, p, a, h) ==
    LET m == Matching(rs, st, p, a, h)
    IN  IF m = {} THEN NA
        ELSE Upper(rs[CHOOSE i \in m : \A j \in m : j <= i].decision)

\* C9: once the same records are loaded through the .csv and the .json
\* branch, neither load has raised, eval_spot_chart answers the same on both
\* charts for every hand and spot, and that answer is the upper-cased decision
\* of the last record for the hand under the spot's key.
C9_CsvJsonEquivalent ==
    (chart_csv.loaded /\ chart_json.loaded) =>
        /\ ~chart_csv.raised /\ ~chart_json.raised
        /\ \A h \in LookupHands, sp \in LookupSpots :
            /\ eval_spot_chart(h, sp, chart_csv.chart)
                 = eval_spot_chart(h, sp, chart_json.chart)
            /\ sp.stacks_bb % CHIP_DEN = 0 =>
                 eval_spot_chart(h, sp, chart_json.chart)
                   = LastDecision(fs, sp.stacks_bb \div CHIP_DEN, sp.position,
                                  sp.action_before, h)

\* both loaded from two records for the same key and hand, the first PUSH in
\* lower case under a two-digit stack, the second a FOLD that overwrites it
C9_Witness ==
    /\ chart_csv.loaded /\ chart_json.loaded
    /\ Len(fs) = 2
    /\ fs[1] = Row(10, "SB", "none", A2s, <<"p","u","s","h">>)
    /\ fs[2] = Row(10, "SB", "none", A2s, <<"F","o","l","d">>)
    /\ Stored(chart_csv.chart, <<10, "SB", "none">>, A2s) = FOLD

-----------------------------------------------------------------------------
(* SpecParse: parse_hand_range on one range string *)

MaxRangeLen == 4

RangeAlphabet == {"A", "9", "2", "s", "o", "+", ",", " "}

RangeStrings == UNION { [1..n -> RangeAlphabet] : n \in 0..MaxRangeLen }

InitParse ==
    /\ pc = "parse"
    /\ args = None
    /\ fs = <<>>
    /\ chart = EmptyChart
    /\ rng = OsSeeded
    /\ hand = None
    /\ spot = None
    /\ decision_chart = None
    /\ ev = None
    /\ decision_ev = None
    /\ final = None
    /\ exc = NoExc
    /\ log = <<>>
    /\ range_str \in RangeStrings
    /\ hands = None
    /\ chart_csv = None
    /\ chart_json = None

\* hands = parse_hand_range(range_str)
ParseHandRange ==
    /\ pc = "parse"
    /\ hands' = parse_hand_range(range_str)
    /\ pc' = IF hands'.raised THEN "raised" ELSE "done"
    /\ exc' = IF hands'.raised THEN [in |-> "parse_hand_range", type |-> "ValueError"]
              ELSE exc
    /\ UNCHANGED <<args, fs, chart, rng, hand, spot, decision_chart, ev,
                   decision_ev, final, log, range_str, chart_csv, chart_json>>

NextParse == ParseHandRange

SpecParse == InitParse /\ [][NextParse]_vars

\* the 0-based strength position of a rank, 0 for A
Strength(r) == IndexOf(RanksDesc, r)

\* C2: for a pair-plus token RR+, parse_hand_range returns exactly the pocket
\* pairs from rank R up to A; for 22+ these are the 13 pocket pairs.
C2_PairPlus ==
    (pc # "parse" /\ Len(range_str) = 3 /\ IsRank(range_str[1])
        /\ range_str[2] = range_str[1] /\ range_str[3] = "+") =>
        /\ pc = "done"
        /\ hands.out = { <<r, r>> : r \in { x \in { RanksDesc[i] : i \in 1..13 } :
                                             Strength(x) <= Strength(range_str[1]) } }
        /\ range_str[1] = "2" => Cardinality(hands.out) = 13

\* C3: for a token R1 R2 x + with R1 stronger than R2 and x in {s, o},
\* parse_hand_range returns exactly the hands R1 r x for r from R2 up to, and
\* not including, R1; A9o+ gives the 5 hands A9o, ATo, AJo, AQo, AKo.
C3_NonPairPlus ==
    (pc # "parse" /\ Len(range_str) = 4 /\ IsRank(range_str[1])
        /\ IsRank(range_str[2]) /\ Strength(range_str[1]) < Strength(range_str[2])
        /\ range_str[3] \in {"s", "o"} /\ range_str[4] = "+") =>
        /\ pc = "done"
        /\ hands.out =
             { <<range_str[1], r, range_str[3]>> :
                 r \in { x \in { RanksDesc[i] : i \in 1..13 } :
                           /\ Strength(range_str[1]) < Strength(x)
                           /\ Strength(x) <= Strength(range_str[2]) } }
        /\ range_str = <<"A", "9", "o", "+">> => Cardinality(hands.out) = 5

====
